---- MODULE Spec2Model ----
(***************************************************************************)
(* Model of the stream of the Minimax streaming TTS client,                *)
(* src/plugins/minimax/tts.py, class SynthesizeStream: the main coroutine  *)
(* _run (connect, handshake, gather of three tasks, exception handlers,    *)
(* finally) and the three tasks _input_task, _send_task and _recv_task,    *)
(* together with the caller (text in, cancellation), the sentence          *)
(* tokenizer stream, the server and the audio emitter they talk to.        *)
(***************************************************************************)
EXTENDS Integers, Sequences, FiniteSets, TLC

\* ---------------------------------------------------------------- bounds
\* Items (text fragments and flush sentinels) the caller may write.
MaxWrites == 2
\* Messages the server may send to one stream.
MaxSrvMsgs == 4
\* Messages in flight from the server to the client.
MaxInbox == 1
\* Bytes one audio event may carry.
MaxChunk == 1
\* Bytes of one audio frame cut by the AudioByteStream.
FrameBytes == 2
\* Buffered text fragments at which the tokenizer releases a token by itself.
MinCtx == 2
\* Pieces of a credential string given to the constructor.
MaxKeyLen == 2
\* Invocations of _run made for one stream: the first and its retries.
MaxAttempts == 2

VARIABLES
    tts,          \* the TTS object: "unbuilt", "built", or "rejected" by its constructor
    opts,         \* self._opts, shared by the TTS object and its streams
    hdrKey,       \* the Authorization header of the connection attempt (None before it)
    pc,           \* position of _run
    exc,          \* exception propagating out of _run ("none" when there is none)
    result,       \* how _run ended, as its caller sees it ("none" while it runs)
    emitted,      \* number of _emit_error(..., recoverable=False) calls
    errLog,       \* the _emit_error calls in order, each with its place among the emitter calls
    ws,           \* self._ws: "none", "open" or "closed"
    hs,           \* handshake history: acknowledgments received, task_start sent, what broke it
    taskStarted,  \* self._task_started
    markStarted,  \* number of _mark_started() calls
    inputT,       \* state of the _input_task task
    sendT,        \* state of the _send_task task
    recvT,        \* state of the _recv_task task
    gatherExc,    \* exception the gather future was completed with
    recvEnd,      \* how the receive loop ended
    inputCh,      \* self._input_ch: items written and not yet pulled
    inputClosed,  \* the caller ended input
    nWritten,     \* items the caller wrote
    nextFrag,     \* next text fragment the caller writes
    tokBuf,       \* tokenizer: buffered fragments
    tokOut,       \* tokenizer: tokens emitted and not yet read
    tokClosed,    \* tokenizer: end_input() was called
    tokLog,       \* every token the tokenizer emitted in this attempt, in order
    wire,         \* messages the client wrote to the connection, in order
    inbox,        \* messages from the server not yet received
    srvClosed,    \* the server closed or dropped the connection
    srvSent,      \* number of messages the server sent
    srvByte,      \* next audio byte the server produces
    bstream,      \* audio_bstream: bytes buffered below one frame
    emitter,      \* calls made on the emitter, in order
    rxAudio,      \* audio bytes decoded from the wire, in arrival order
    nFinal,       \* is_final events processed by the receive loop
    endInputs,    \* end_input() calls made on the current tokenizer stream
    tasksRan,     \* one of the three tasks has taken a step since they were created
    attempt,      \* number of the current invocation of _run
    pulledBefore  \* text fragments earlier invocations of _run pulled from the input channel

vars == <<tts, opts, hdrKey, pc, exc, result, emitted, errLog, ws, hs, taskStarted, markStarted,
          inputT, sendT, recvT, gatherExc, recvEnd,
          inputCh, inputClosed, nWritten, nextFrag,
          tokBuf, tokOut, tokClosed, tokLog,
          wire, inbox, srvClosed, srvSent, srvByte,
          bstream, emitter, rxAudio, nFinal,
          endInputs, tasksRan, attempt, pulledBefore>>

cfgVars == <<tts, opts, hdrKey>>
runVars == <<pc, exc, result, emitted, errLog>>
connVars == <<ws, hs, taskStarted, markStarted>>
taskVars == <<inputT, sendT, recvT, gatherExc, recvEnd>>
callerVars == <<inputCh, inputClosed, nWritten, nextFrag>>
tokVars == <<tokBuf, tokOut, tokClosed, tokLog>>
srvVars == <<inbox, srvClosed, srvSent, srvByte>>
audioVars == <<bstream, emitter, rxAudio, nFinal>>
retryVars == <<attempt, pulledBefore>>

\* ---------------------------------------------------------------- TTS options
\* Strings are sequences of pieces: a piece is the seven characters "Bearer ",
\* or one other character, or a whole word that holds no such prefix.
Str(word) == <<word>>
BearerPrefix == "Bearer "
\* NOT_GIVEN, and None as os.environ.get returns it for a variable not set.
NotGiven == Str("NOT_GIVEN")
NoneValue == Str("None")
IsGiven(v) == v # NotGiven

KeyStrings == UNION {[1..n -> {BearerPrefix, "k"}] : n \in 0..MaxKeyLen}
GroupStrings == {<<>>, <<"g">>}

\* `not value` for a string or None.
Falsy(v) == v = NoneValue \/ v = <<>>
\* value.startswith("Bearer ")
StartsWithBearer(s) == s # <<>> /\ Head(s) = BearerPrefix
\* The prefix is stripped when it is there, then added.
FormatKey(s) == <<BearerPrefix>> \o (IF StartsWithBearer(s) THEN Tail(s) ELSE s)
\* The key proper of a header value: what follows its prefix.
KeyProper(h) == IF StartsWithBearer(h) THEN Tail(h) ELSE h

\* The arguments of TTS(...) that vary here, with the two environment
\* variables; the other arguments keep their defaults.
CtorArgs(api_key, env_key, group_id, env_group, sample_rate) ==
    [api_key |-> api_key, env_key |-> env_key,
     group_id |-> group_id, env_group |-> env_group, sample_rate |-> sample_rate]
\* x if is_given(x) else os.environ.get(...)
Resolve(arg, env) == IF IsGiven(arg) THEN arg ELSE env

\* The constructor raises ValueError.
Rejects(a) ==
    \/ Falsy(Resolve(a.api_key, a.env_key))
    \/ Falsy(Resolve(a.group_id, a.env_group))
\* The _TTSOptions the constructor builds.
NewOptions(a) ==
    [model |-> Str("speech-01-hd"), language |-> NotGiven, encoding |-> Str("pcm_s16le"),
     sample_rate |-> a.sample_rate, voice_id |-> Str("TTSVoiceDefault"),
     speed |-> NotGiven, emotion |-> NotGiven,
     api_key |-> FormatKey(Resolve(a.api_key, a.env_key)),
     group_id |-> Resolve(a.group_id, a.env_group),
     base_url |-> Str("https://api.minimaxi.chat"),
     bitrate |-> 128000, channels |-> 1]
\* self._opts before the constructor has run.
NoOptions == [model |-> NoneValue]

\* TTS(...): the options are built, or ValueError is raised.
Construct ==
    /\ tts = "unbuilt"
    /\ \E api_key \in KeyStrings \cup {NotGiven}, env_key \in {NoneValue, <<>>, <<"k">>},
          group_id \in GroupStrings \cup {NotGiven}, env_group \in {NoneValue, <<"g">>},
          sample_rate \in {16000, 32000} :
         LET a == CtorArgs(api_key, env_key, group_id, env_group, sample_rate) IN
         IF Rejects(a)
         THEN tts' = "rejected" /\ opts' = opts
         ELSE tts' = "built" /\ opts' = NewOptions(a)
    /\ UNCHANGED <<hdrKey, runVars, connVars, taskVars, callerVars, tokVars, wire, srvVars, audioVars>>
    /\ UNCHANGED <<retryVars, endInputs, tasksRan>>

\* The options update_options takes.
Updatable == {"model", "language", "voice_id", "speed", "emotion"}
UpdateArgs ==
    [model : {NotGiven, Str("speech-01"), Str("speech-01-turbo")},
     language : {NotGiven, Str("zh"), Str("en")},
     voice_id : {NotGiven, Str("male-qn-qingse")},
     speed : {NotGiven, Str("0.5"), Str("2.0")},
     emotion : {NotGiven, Str("happy")}]

\* Fault variant: every option is overwritten with its argument, given or not.
OverwrittenOptions(o, u) ==
    [o EXCEPT !.model = u.model, !.language = u.language, !.voice_id = u.voice_id,
              !.speed = u.speed, !.emotion = u.emotion]
\* update_options: each option that is given replaces the stored one.
UpdatedOptions(o, u) ==
    [o EXCEPT !.model = IF IsGiven(u.model) THEN u.model ELSE @,
              !.language = IF IsGiven(u.language) THEN u.language ELSE @,
              !.voice_id = IF IsGiven(u.voice_id) THEN u.voice_id ELSE @,
              !.speed = IF IsGiven(u.speed) THEN u.speed ELSE @,
              !.emotion = IF IsGiven(u.emotion) THEN u.emotion ELSE @]

UpdateOptions ==
    /\ tts = "built"
    /\ \E u \in UpdateArgs : opts' = UpdatedOptions(opts, u)
    /\ UNCHANGED <<tts, hdrKey, runVars, connVars, taskVars, callerVars, tokVars, wire, srvVars, audioVars>>
    /\ UNCHANGED <<retryVars, endInputs, tasksRan>>

\* ---------------------------------------------------------------- helpers
\* The blank text fragment (whitespace only); fragments 1, 2, ... carry text.
Blank == 0

\* token.strip(): a token is a sequence of fragments, blank when all of them are.
IsBlank(token) == \A i \in 1..Len(token) : token[i] = Blank

RECURSIVE SelectNonBlank(_)
SelectNonBlank(ts) ==
    IF ts = <<>> THEN <<>>
    ELSE IF IsBlank(Head(ts)) THEN SelectNonBlank(Tail(ts))
         ELSE <<Head(ts)>> \o SelectNonBlank(Tail(ts))

Finished(t) == t \in {"ok", "api", "timeout", "exc", "cancelled"}
TasksCreated == inputT # "none" \/ sendT # "none" \/ recvT # "none"
AllFinished == Finished(inputT) /\ Finished(sendT) /\ Finished(recvT)

\* task.cancel() on a task that is not done.
CancelTask(t) == IF t = "run" THEN "cancelling" ELSE t

\* ---------------------------------------------------------------- messages
TextMsg(ev, hasAudio, bad, bytes, final) ==
    [t |-> "TEXT", ev |-> ev, hasAudio |-> hasAudio, bad |-> bad,
     bytes |-> bytes, final |-> final]
CtrlMsg(t) ==
    [t |-> t, ev |-> "", hasAudio |-> FALSE, bad |-> FALSE,
     bytes |-> <<>>, final |-> FALSE]

\* ws.receive(): the next message; a closed socket answers CLOSED at once.
HasMsg == ws = "closed" \/ inbox # <<>>
NextMsg == IF ws = "closed" THEN CtrlMsg("CLOSED") ELSE Head(inbox)
\* Receiving a close or an error closes the client side (autoclose).
WsAfter(m) == IF m.t \in {"CLOSED", "ERROR"} THEN "closed" ELSE ws
InboxAfter == IF ws = "closed" THEN inbox ELSE Tail(inbox)

\* The stream as SynthesizeStream.__init__ leaves it.
StreamInit ==
    /\ pc = "start" /\ exc = "none" /\ result = "none" /\ emitted = 0 /\ errLog = <<>>
    /\ ws = "none" /\ hs = <<>> /\ taskStarted = FALSE /\ markStarted = 0
    /\ inputT = "none" /\ sendT = "none" /\ recvT = "none"
    /\ gatherExc = "none" /\ recvEnd = "none"
    /\ inputCh = <<>> /\ inputClosed = FALSE /\ nWritten = 0 /\ nextFrag = 1
    /\ tokBuf = <<>> /\ tokOut = <<>> /\ tokClosed = FALSE /\ tokLog = <<>>
    /\ wire = <<>> /\ inbox = <<>> /\ srvClosed = FALSE /\ srvSent = 0
    /\ srvByte = 1
    /\ bstream = <<>> /\ emitter = <<>> /\ rxAudio = <<>> /\ nFinal = 0
    /\ endInputs = 0 /\ tasksRan = FALSE /\ attempt = 1 /\ pulledBefore = {}

\* A stream of a TTS object built with a key and a group id.
Init ==
    /\ tts = "built"
    /\ opts = NewOptions(CtorArgs(<<"k">>, NoneValue, <<"g">>, NoneValue, 32000))
    /\ hdrKey = NoneValue
    /\ StreamInit


\* ---------------------------------------------------------------- tokenizer
\* The sentence tokenizer stream as a value: buffered fragments, emitted tokens
\* not yet read, the closed flag, and the log of every token emitted.
Tok(buf, out, closed, log) == [buf |-> buf, out |-> out, closed |-> closed, log |-> log]
\* Fault variant: _run goes on with the tokenizer stream it finds.
KeptTokenizer == Tok(tokBuf, tokOut, tokClosed, tokLog)
\* tokenize.basic.SentenceTokenizer().stream(): a new, empty stream.
NewTokenizer == Tok(<<>>, <<>>, FALSE, <<>>)
CurTok == Tok(tokBuf, tokOut, tokClosed, tokLog)

\* push_text(): buffers the fragment; once MinCtx fragments are buffered, every
\* fragment but the last is released as one token.
TokPushText(tk, frag) ==
    LET buf == Append(tk.buf, frag) IN
    IF Len(buf) < MinCtx THEN Tok(buf, tk.out, tk.closed, tk.log)
    ELSE LET token == SubSeq(buf, 1, Len(buf) - 1) IN
         Tok(<<buf[Len(buf)]>>, Append(tk.out, token), tk.closed, Append(tk.log, token))

\* flush(): releases what is buffered as one token, when there is any.
TokFlush(tk) ==
    IF tk.buf = <<>> THEN tk
    ELSE Tok(<<>>, Append(tk.out, tk.buf), tk.closed, Append(tk.log, tk.buf))

\* end_input(): flush(), then the token channel is closed.
TokEndInput(tk) == LET f == TokFlush(tk) IN Tok(f.buf, f.out, TRUE, f.log)

SetTok(tk) ==
    /\ tokBuf' = tk.buf /\ tokOut' = tk.out
    /\ tokClosed' = tk.closed /\ tokLog' = tk.log

\* ---------------------------------------------------------------- audio
\* The flush sentinel of the input channel.
FlushSentinel == -1

PushEntry(frame) == [k |-> "push", b |-> frame, n |-> 0]
\* A flush entry remembers how many audio bytes had arrived when it was issued.
FlushEntry(n) == [k |-> "flush", b |-> <<>>, n |-> n]

\* An _emit_error call: the kind of the error, the number of emitter calls
\* made before it, and the recoverable flag, which every call site passes as
\* False.
ErrorEntry(kind, at) == [kind |-> kind, at |-> at, recoverable |-> FALSE]

\* AudioByteStream.write(): the full frames cut from the buffer plus the data.
RECURSIVE Frames(_)
Frames(bytes) ==
    IF Len(bytes) < FrameBytes THEN <<>>
    ELSE <<PushEntry(SubSeq(bytes, 1, FrameBytes))>>
         \o Frames(SubSeq(bytes, FrameBytes + 1, Len(bytes)))
RECURSIVE Rest(_)
Rest(bytes) ==
    IF Len(bytes) < FrameBytes THEN bytes
    ELSE Rest(SubSeq(bytes, FrameBytes + 1, Len(bytes)))
\* AudioByteStream.flush(): what is buffered, as one short frame.
FlushFrames(buf) == IF buf = <<>> THEN <<>> ELSE <<PushEntry(buf)>>

\* ---------------------------------------------------------------- _run
\* An exception leaves the try block of _run: APIError kinds go to the first
\* handler, anything else to the second.
IsAPIError(e) == e \in {"APIConnectionError", "APIStatusError", "APITimeoutError"}
\* APITimeoutError is a kind of APIConnectionError.
IsConnectionError(e) == e \in {"APIConnectionError", "APITimeoutError"}
Raise(e) ==
    /\ exc' = e
    /\ pc' = IF IsAPIError(e) THEN "except_api" ELSE "except_exc"

\* ws.send_json(): succeeds on an open socket; fails once the socket is closed
\* and may fail as soon as the peer has gone.
CanSend == ws = "open"
MaySendFail == ws = "closed" \/ srvClosed

RunBegin ==
    /\ tts = "built"
    /\ pc = "start"
    /\ SetTok(NewTokenizer)
    /\ taskStarted' = FALSE
    /\ pc' = "connect"
    /\ UNCHANGED <<exc, result, emitted, errLog, ws, hs, markStarted>>
    /\ UNCHANGED <<taskVars, callerVars, wire, srvVars, audioVars>>
    /\ endInputs' = 0
    /\ UNCHANGED <<cfgVars, retryVars, tasksRan>>

ConnectOk ==
    /\ pc = "connect"
    /\ ws' = "open"
    /\ pc' = "wait_connected"
    /\ UNCHANGED <<exc, result, emitted, errLog, hs, taskStarted, markStarted>>
    /\ UNCHANGED <<taskVars, callerVars, tokVars, wire, srvVars, audioVars>>
    /\ hdrKey' = opts.api_key
    /\ UNCHANGED <<tts, opts, retryVars, endInputs, tasksRan>>

\* ws_connect raises a client error, or wait_for raises asyncio.TimeoutError.
ConnectFail ==
    /\ pc = "connect"
    /\ Raise("exc")
    /\ UNCHANGED <<result, emitted, errLog, connVars>>
    /\ UNCHANGED <<taskVars, callerVars, tokVars, wire, srvVars, audioVars>>
    /\ hdrKey' = opts.api_key
    /\ UNCHANGED <<tts, opts, retryVars, endInputs, tasksRan>>

\* async for msg in self._ws, waiting for connected_success.  The iteration
\* ends without an exception when the socket closes.
WaitConnected ==
    /\ pc = "wait_connected"
    /\ HasMsg
    /\ LET m == NextMsg IN
       /\ ws' = WsAfter(m)
       /\ inbox' = InboxAfter
       /\ IF m.t = "TEXT" /\ m.ev = "connected_success"
          THEN /\ hs' = Append(hs, "connected")
               /\ pc' = "send_start"
               /\ exc' = exc
          ELSE IF m.t = "TEXT" \/ m.t = "ERROR"
          THEN /\ Raise("APIConnectionError")
               /\ hs' = Append(hs, IF m.t = "TEXT" THEN "unexpected" ELSE "transport_error")
          ELSE IF m.t = "CLOSED"
          THEN /\ pc' = "send_start"
               /\ hs' = Append(hs, "closed")
               /\ exc' = exc
          ELSE UNCHANGED <<pc, exc, hs>>
    /\ UNCHANGED <<result, emitted, errLog, taskStarted, markStarted>>
    /\ UNCHANGED <<taskVars, callerVars, tokVars, wire, srvClosed, srvSent, srvByte, audioVars>>
    /\ UNCHANGED <<cfgVars, retryVars, endInputs, tasksRan>>

SendTaskStartOk ==
    /\ pc = "send_start"
    /\ CanSend
    /\ wire' = Append(wire, <<"task_start">>)
    /\ hs' = Append(hs, "task_start")
    /\ pc' = "wait_started"
    /\ UNCHANGED <<exc, result, emitted, errLog, ws, taskStarted, markStarted>>
    /\ UNCHANGED <<taskVars, callerVars, tokVars, srvVars, audioVars>>
    /\ UNCHANGED <<cfgVars, retryVars, endInputs, tasksRan>>

SendTaskStartFail ==
    /\ pc = "send_start"
    /\ MaySendFail
    /\ Raise("exc")
    /\ hs' = Append(hs, "send_failed")
    /\ UNCHANGED <<result, emitted, errLog, ws, taskStarted, markStarted>>
    /\ UNCHANGED <<taskVars, callerVars, tokVars, wire, srvVars, audioVars>>
    /\ UNCHANGED <<cfgVars, retryVars, endInputs, tasksRan>>

\* Fault variant: the tasks are created whenever the second loop ends.
ProceedAlways(started) == TRUE
\* The safeguard after the second loop: the tasks are created only when
\* task_started was received.
ProceedAfterWait(started) == started

\* asyncio.create_task for the three tasks.
SpawnTasks ==
    /\ inputT' = "run" /\ sendT' = "run" /\ recvT' = "run"
    /\ pc' = "gather"
    /\ UNCHANGED <<exc, gatherExc, recvEnd>>

\* async for msg in self._ws, waiting for task_started.
WaitTaskStarted ==
    /\ pc = "wait_started"
    /\ HasMsg
    /\ LET m == NextMsg IN
       /\ ws' = WsAfter(m)
       /\ inbox' = InboxAfter
       /\ IF m.t = "TEXT" /\ m.ev = "task_started"
          THEN /\ taskStarted' = TRUE
               /\ markStarted' = markStarted + 1
               /\ hs' = Append(hs, "task_started")
               /\ SpawnTasks
          ELSE IF m.t = "TEXT" /\ m.ev = "error"
          THEN /\ Raise("APIStatusError")
               /\ hs' = Append(hs, "error_event")
               /\ UNCHANGED <<taskStarted, markStarted, taskVars>>
          ELSE IF m.t = "ERROR"
          THEN /\ Raise("APIConnectionError")
               /\ hs' = Append(hs, "transport_error")
               /\ UNCHANGED <<taskStarted, markStarted, taskVars>>
          ELSE IF m.t = "CLOSED"
          THEN /\ hs' = Append(hs, "closed")
               /\ UNCHANGED <<taskStarted, markStarted>>
               /\ IF ProceedAfterWait(taskStarted)
                  THEN SpawnTasks
                  ELSE /\ Raise("APIConnectionError")
                       /\ UNCHANGED taskVars
          ELSE UNCHANGED <<pc, exc, taskStarted, markStarted, hs, taskVars>>
    /\ UNCHANGED <<result, emitted, errLog>>
    /\ UNCHANGED <<callerVars, tokVars, wire, srvClosed, srvSent, srvByte, audioVars>>
    /\ UNCHANGED <<cfgVars, retryVars, endInputs, tasksRan>>

\* await asyncio.gather(*tasks) returns: the three tasks ended without exception.
GatherReturn ==
    /\ pc = "gather"
    /\ inputT = "ok" /\ sendT = "ok" /\ recvT = "ok"
    /\ pc' = "finally"
    /\ UNCHANGED <<exc, result, emitted, errLog, connVars>>
    /\ UNCHANGED <<taskVars, callerVars, tokVars, wire, srvVars, audioVars>>
    /\ UNCHANGED <<cfgVars, retryVars, endInputs, tasksRan>>

\* await asyncio.gather(*tasks) raises the exception of the first task that
\* failed; the handler cancels the tasks that are not done.
GatherRaise ==
    /\ pc = "gather"
    /\ gatherExc # "none"
    /\ Raise(gatherExc)
    /\ inputT' = CancelTask(inputT)
    /\ sendT' = CancelTask(sendT)
    /\ recvT' = CancelTask(recvT)
    /\ UNCHANGED <<result, emitted, errLog, connVars, gatherExc, recvEnd>>
    /\ UNCHANGED <<callerVars, tokVars, wire, srvVars, audioVars>>
    /\ UNCHANGED <<cfgVars, retryVars, endInputs, tasksRan>>

\* except APIError: the cancelled tasks are awaited, the error is re-raised.
ExceptAPIError ==
    /\ pc = "except_api"
    /\ ~TasksCreated \/ AllFinished
    /\ pc' = "finally"
    /\ UNCHANGED <<exc, result, emitted, errLog, connVars>>
    /\ UNCHANGED <<taskVars, callerVars, tokVars, wire, srvVars, audioVars>>
    /\ UNCHANGED <<cfgVars, retryVars, endInputs, tasksRan>>

\* Fault variant: the second handler re-raises what it caught.
Reraised(e) == e
\* raise APIConnectionError(...) from e
Wrapped(e) == "APIConnectionError"

\* except Exception: the cancelled tasks are awaited, a non-recoverable error is
\* emitted and APIConnectionError is raised.
ExceptException ==
    /\ pc = "except_exc"
    /\ ~TasksCreated \/ AllFinished
    /\ emitted' = emitted + 1
    /\ errLog' = Append(errLog, ErrorEntry("APIConnectionError", Len(emitter)))
    /\ exc' = Wrapped(exc)
    /\ pc' = "finally"
    /\ UNCHANGED <<result, connVars>>
    /\ UNCHANGED <<taskVars, callerVars, tokVars, wire, srvVars, audioVars>>
    /\ UNCHANGED <<cfgVars, retryVars, endInputs, tasksRan>>

\* Fault variant: finally leaves the socket as it is.
CloseNever(w) == w
\* finally: the socket is closed when it is set and not closed.
CloseInFinally(w) == IF w = "open" THEN "closed" ELSE w

Finally ==
    /\ pc = "finally"
    /\ ws' = CloseInFinally(ws)
    /\ pc' = "done"
    /\ result' = IF exc = "none" THEN "ok" ELSE exc
    /\ UNCHANGED <<exc, emitted, errLog, hs, taskStarted, markStarted>>
    /\ UNCHANGED <<taskVars, callerVars, tokVars, wire, srvVars, audioVars>>
    /\ UNCHANGED <<cfgVars, retryVars, endInputs, tasksRan>>

\* The set of the elements of a sequence.
Range(q) == {q[i] : i \in 1..Len(q)}
\* The text fragments this invocation of _run has pulled from the input
\* channel: what the tokenizer buffers and what it has released.
PulledNow ==
    (Range(tokBuf) \cup UNION {Range(tokLog[i]) : i \in 1..Len(tokLog)}) \ {Blank}

\* except APIError: raise, "for base class retry mechanism": after a connection
\* or timeout error the base class invokes _run again on the same stream
\* object, with a new connection; the input channel, self._ws, the tokenizer
\* stream and self._task_started are what the last invocation left.
Retry ==
    /\ pc = "done" /\ IsConnectionError(result)
    /\ attempt < MaxAttempts
    /\ attempt' = attempt + 1
    /\ pulledBefore' = pulledBefore \cup PulledNow
    /\ pc' = "start" /\ exc' = "none" /\ result' = "none"
    /\ inputT' = "none" /\ sendT' = "none" /\ recvT' = "none"
    /\ gatherExc' = "none" /\ recvEnd' = "none" /\ tasksRan' = FALSE
    /\ hs' = <<>> /\ wire' = <<>> /\ inbox' = <<>> /\ srvClosed' = FALSE
    /\ bstream' = <<>> /\ emitter' = <<>> /\ rxAudio' = <<>> /\ nFinal' = 0
    /\ UNCHANGED <<emitted, errLog, ws, taskStarted, markStarted>>
    /\ UNCHANGED <<callerVars, tokVars, endInputs, srvSent, srvByte>>
    /\ UNCHANGED cfgVars

\* ---------------------------------------------------------------- caller
\* push_text() on the stream: a blank fragment or the next text fragment.
CallerWrite ==
    /\ pc # "done" /\ ~inputClosed /\ nWritten < MaxWrites
    /\ \E blank \in BOOLEAN :
         /\ inputCh' = Append(inputCh, IF blank THEN Blank ELSE nextFrag)
         /\ nextFrag' = IF blank THEN nextFrag ELSE nextFrag + 1
    /\ nWritten' = nWritten + 1
    /\ UNCHANGED <<runVars, connVars, taskVars, inputClosed, tokVars, wire, srvVars, audioVars>>
    /\ UNCHANGED <<cfgVars, retryVars, endInputs, tasksRan>>

\* flush() on the stream.
CallerFlush ==
    /\ pc # "done" /\ ~inputClosed /\ nWritten < MaxWrites
    /\ inputCh' = Append(inputCh, FlushSentinel)
    /\ nWritten' = nWritten + 1
    /\ UNCHANGED <<runVars, connVars, taskVars, inputClosed, nextFrag, tokVars, wire, srvVars, audioVars>>
    /\ UNCHANGED <<cfgVars, retryVars, endInputs, tasksRan>>

\* end_input() on the stream: the input channel is closed.
CallerEnd ==
    /\ pc # "done" /\ ~inputClosed
    /\ inputClosed' = TRUE
    /\ UNCHANGED <<runVars, connVars, taskVars, inputCh, nWritten, nextFrag, tokVars, wire, srvVars, audioVars>>
    /\ UNCHANGED <<cfgVars, retryVars, endInputs, tasksRan>>

\* The caller cancels the stream while _run waits in the connection setup.
CancelHandshake ==
    /\ pc \in {"connect", "wait_connected", "send_start", "wait_started"}
    /\ exc' = "cancel"
    /\ pc' = "finally"
    /\ UNCHANGED <<result, emitted, errLog, connVars>>
    /\ UNCHANGED <<taskVars, callerVars, tokVars, wire, srvVars, audioVars>>
    /\ UNCHANGED <<cfgVars, retryVars, endInputs, tasksRan>>

\* The caller cancels the stream while _run waits in gather and gather is
\* pending: gather cancels its children.
CancelGather ==
    /\ pc = "gather" /\ gatherExc = "none"
    /\ exc' = "cancel"
    /\ pc' = "cancel_wait"
    /\ inputT' = CancelTask(inputT)
    /\ sendT' = CancelTask(sendT)
    /\ recvT' = CancelTask(recvT)
    /\ UNCHANGED <<result, emitted, errLog, connVars, gatherExc, recvEnd>>
    /\ UNCHANGED <<callerVars, tokVars, wire, srvVars, audioVars>>
    /\ UNCHANGED <<cfgVars, retryVars, endInputs, tasksRan>>

\* The caller cancels the stream right after the tasks were created, before any
\* of them has taken a step: gather cancels its children, and a task cancelled
\* before its first step ends without entering its body, so that neither an
\* except clause nor a finally clause of it runs.
CancelBeforeStart ==
    /\ pc = "gather" /\ gatherExc = "none"
    /\ ~tasksRan
    /\ exc' = "cancel"
    /\ pc' = "cancel_wait"
    /\ inputT' = "cancelled" /\ sendT' = "cancelled" /\ recvT' = "cancelled"
    /\ UNCHANGED <<result, emitted, errLog, connVars, gatherExc, recvEnd>>
    /\ UNCHANGED <<callerVars, tokVars, wire, srvVars, audioVars>>
    /\ UNCHANGED <<cfgVars, retryVars, endInputs, tasksRan>>

\* The caller cancels the stream after a child has failed and before _run has
\* resumed from gather: the gather future is done, so the cancellation does not
\* reach the children; CancelledError replaces the child's exception in _run and
\* passes both handlers.
CancelGatherLate ==
    /\ pc = "gather" /\ gatherExc # "none"
    /\ exc' = "cancel"
    /\ pc' = "finally"
    /\ UNCHANGED <<result, emitted, errLog, connVars>>
    /\ UNCHANGED <<taskVars, callerVars, tokVars, wire, srvVars, audioVars>>
    /\ UNCHANGED <<cfgVars, retryVars, endInputs, tasksRan>>

\* The caller cancels the stream while a handler awaits the cancelled tasks.
CancelHandler ==
    /\ pc \in {"except_api", "except_exc"}
    /\ TasksCreated /\ ~AllFinished
    /\ exc' = "cancel"
    /\ pc' = "cancel_wait"
    /\ UNCHANGED <<result, emitted, errLog, connVars>>
    /\ UNCHANGED <<taskVars, callerVars, tokVars, wire, srvVars, audioVars>>
    /\ UNCHANGED <<cfgVars, retryVars, endInputs, tasksRan>>

\* CancelledError reaches _run once the cancelled children have finished.
CancelWaitDone ==
    /\ pc = "cancel_wait"
    /\ AllFinished
    /\ pc' = "finally"
    /\ UNCHANGED <<exc, result, emitted, errLog, connVars>>
    /\ UNCHANGED <<taskVars, callerVars, tokVars, wire, srvVars, audioVars>>
    /\ UNCHANGED <<cfgVars, retryVars, endInputs, tasksRan>>

\* ---------------------------------------------------------------- _input_task
\* One item of the input channel goes to the tokenizer.
InputPull ==
    /\ inputT = "run"
    /\ inputCh # <<>>
    /\ inputCh' = Tail(inputCh)
    /\ SetTok(IF Head(inputCh) = FlushSentinel
              THEN TokFlush(CurTok)
              ELSE TokPushText(CurTok, Head(inputCh)))
    /\ UNCHANGED <<runVars, connVars, taskVars, inputClosed, nWritten, nextFrag, wire, srvVars, audioVars>>
    /\ tasksRan' = TRUE
    /\ UNCHANGED <<cfgVars, retryVars, endInputs>>

\* Fault variant: end_input() is called again on leaving the task.
SignalledAgain(n) == n + 2
\* One call of end_input() on each path out of the task: after the loop, in the
\* CancelledError handler, in the Exception handler.
SignalledOnce(n) == n + 1

\* The input channel is closed and drained: end_input(), the task returns.
InputEnd ==
    /\ inputT = "run"
    /\ inputCh = <<>> /\ inputClosed
    /\ SetTok(TokEndInput(CurTok))
    /\ inputT' = "ok"
    /\ UNCHANGED <<runVars, connVars, sendT, recvT, gatherExc, recvEnd, callerVars, wire, srvVars, audioVars>>
    /\ endInputs' = SignalledOnce(endInputs)
    /\ tasksRan' = TRUE
    /\ UNCHANGED <<cfgVars, retryVars>>

\* except asyncio.CancelledError: end_input(), re-raise.
InputCancelled ==
    /\ inputT = "cancelling"
    /\ SetTok(TokEndInput(CurTok))
    /\ inputT' = "cancelled"
    /\ UNCHANGED <<runVars, connVars, sendT, recvT, gatherExc, recvEnd, callerVars, wire, srvVars, audioVars>>
    /\ endInputs' = SignalledOnce(endInputs)
    /\ tasksRan' = TRUE
    /\ UNCHANGED <<cfgVars, retryVars>>

\* ---------------------------------------------------------------- _send_task
\* A failure of a child completes the gather future when it is the first.
FirstExc(e) == IF gatherExc = "none" THEN e ELSE gatherExc

\* Fault variant: blank tokens are sent too.
SendsEveryToken(token) == TRUE
\* if not token.strip(): continue
SendsToken(token) == ~IsBlank(token)

\* The next token of the tokenizer: skipped when blank, else sent as task_continue.
SendToken ==
    /\ sendT = "run"
    /\ tokOut # <<>>
    /\ IF SendsToken(Head(tokOut))
       THEN /\ CanSend
            /\ wire' = Append(wire, <<"task_continue", Head(tokOut)>>)
       ELSE wire' = wire
    /\ tokOut' = Tail(tokOut)
    /\ UNCHANGED <<runVars, connVars, taskVars, callerVars, tokBuf, tokClosed, tokLog, srvVars, audioVars>>
    /\ tasksRan' = TRUE
    /\ UNCHANGED <<cfgVars, retryVars, endInputs>>

\* Fault variant: the loop over the tokenizer stream ends whenever no token waits.
EndsWhenIdle(out, closed) == out = <<>>
\* async for token in self._sent_tokenizer_stream ends: every token was read
\* and end_input() closed the stream.
Exhausted(out, closed) == out = <<>> /\ closed

\* The tokenizer stream is exhausted: task_finish is sent, the task returns.
SendFinish ==
    /\ sendT = "run"
    /\ Exhausted(tokOut, tokClosed)
    /\ CanSend
    /\ wire' = Append(wire, <<"task_finish">>)
    /\ sendT' = "ok"
    /\ UNCHANGED <<runVars, connVars, inputT, recvT, gatherExc, recvEnd, callerVars, tokVars, srvVars, audioVars>>
    /\ tasksRan' = TRUE
    /\ UNCHANGED <<cfgVars, retryVars, endInputs>>

\* ws.send_json raises in either send: the exception is logged and re-raised.
SendFail ==
    /\ sendT = "run"
    /\ \/ tokOut # <<>> /\ SendsToken(Head(tokOut))
       \/ Exhausted(tokOut, tokClosed)
    /\ MaySendFail
    /\ tokOut' = IF tokOut # <<>> THEN Tail(tokOut) ELSE tokOut
    /\ sendT' = "exc"
    /\ gatherExc' = FirstExc("exc")
    /\ UNCHANGED <<runVars, connVars, inputT, recvT, recvEnd, callerVars, tokBuf, tokClosed, tokLog, wire, srvVars, audioVars>>
    /\ tasksRan' = TRUE
    /\ UNCHANGED <<cfgVars, retryVars, endInputs>>

\* CancelledError is no Exception: it leaves the task at once.
SendCancelled ==
    /\ sendT = "cancelling"
    /\ sendT' = "cancelled"
    /\ UNCHANGED <<runVars, connVars, inputT, recvT, gatherExc, recvEnd, callerVars, tokVars, wire, srvVars, audioVars>>
    /\ tasksRan' = TRUE
    /\ UNCHANGED <<cfgVars, retryVars, endInputs>>


\* ---------------------------------------------------------------- _recv_task
\* bytes.fromhex(): the bytes of a well-formed payload; ValueError otherwise.
Decoded(m) == IF m.hasAudio /\ ~m.bad THEN m.bytes ELSE <<>>
\* Fault variant: an error event is logged and not reported.
ErrorsUnreported(m) == IF m.hasAudio /\ m.bad THEN 1 ELSE 0
\* _emit_error(..., recoverable=False) calls made for one TEXT message.
ErrorsOf(m) ==
    (IF m.ev = "error" THEN 1 ELSE 0) + (IF m.hasAudio /\ m.bad THEN 1 ELSE 0)

\* The same calls as log entries; `at` is the number of emitter calls made
\* before: both calls come before the frames and the flush of the message.
ErrorLogOf(m, at) ==
    (IF m.ev = "error" THEN <<ErrorEntry("APIStatusError", at)>> ELSE <<>>)
      \o (IF m.hasAudio /\ m.bad THEN <<ErrorEntry("APIError", at)>> ELSE <<>>)

\* Fault variant: is_final is handled before the audio of the same message.
FlushBeforeAudio(buf, m, got) ==
    IF m.final
    THEN FlushFrames(buf) \o <<FlushEntry(got)>> \o Frames(Decoded(m))
    ELSE Frames(buf \o Decoded(m))
\* The emitter calls made for one TEXT message: the frames cut from its audio,
\* then, when is_final is set, the buffered rest and the segment flush.  `got`
\* is the number of audio bytes that have arrived, this message included.
EmitFor(buf, m, got) ==
    Frames(buf \o Decoded(m))
      \o (IF m.final
          THEN FlushFrames(Rest(buf \o Decoded(m))) \o <<FlushEntry(got)>>
          ELSE <<>>)
\* What stays in audio_bstream after the message.
BufferAfter(buf, m) == IF m.final THEN <<>> ELSE Rest(buf \o Decoded(m))

\* finally of _recv_task: the buffered rest is pushed; the emitter is not flushed.
RecvFinally(how) ==
    /\ emitter' = emitter \o FlushFrames(bstream)
    /\ bstream' = <<>>
    /\ recvEnd' = how

\* The receive loop stops on a CLOSED or CLOSING message.
EndsLoop(m) == m.t = "CLOSED"

\* One turn of the receive loop with a message at hand.  While _task_started is
\* false the loop polls instead and leaves when the socket is closed.
RecvMessage ==
    /\ recvT = "run"
    /\ IF ~taskStarted
       THEN /\ ws = "closed"
            /\ RecvFinally("not_started")
            /\ recvT' = "ok"
            /\ UNCHANGED <<ws, inbox, emitted, errLog, gatherExc, rxAudio, nFinal>>
       ELSE /\ HasMsg
            /\ LET m == NextMsg IN
               /\ ws' = WsAfter(m)
               /\ inbox' = InboxAfter
               /\ IF m.t = "TEXT"
                  THEN /\ emitted' = emitted + ErrorsOf(m)
                       /\ errLog' = errLog \o ErrorLogOf(m, Len(emitter))
                       /\ rxAudio' = rxAudio \o Decoded(m)
                       /\ emitter' = emitter \o EmitFor(bstream, m, Len(rxAudio'))
                       /\ bstream' = BufferAfter(bstream, m)
                       /\ nFinal' = IF m.final THEN nFinal + 1 ELSE nFinal
                       /\ UNCHANGED <<recvT, gatherExc, recvEnd>>
                  ELSE IF EndsLoop(m)
                  THEN /\ RecvFinally("closed")
                       /\ recvT' = "ok"
                       /\ UNCHANGED <<emitted, errLog, gatherExc, rxAudio, nFinal>>
                  ELSE IF m.t = "ERROR"
                  THEN /\ RecvFinally("error")
                       /\ recvT' = "api"
                       /\ gatherExc' = FirstExc("APIConnectionError")
                       /\ UNCHANGED <<emitted, errLog, rxAudio, nFinal>>
                  ELSE UNCHANGED <<emitted, errLog, recvT, gatherExc, recvEnd, audioVars>>
    /\ UNCHANGED <<pc, exc, result, hs, taskStarted, markStarted>>
    /\ UNCHANGED <<inputT, sendT, callerVars, tokVars, wire, srvClosed, srvSent, srvByte>>
    /\ tasksRan' = TRUE
    /\ UNCHANGED <<cfgVars, retryVars, endInputs>>

\* Fault variant: ws.receive() is awaited without a timeout.
TimeoutNever == FALSE
\* asyncio.wait_for(ws.receive(), timeout): the wait expires when no message
\* comes.
TimeoutExpires == ~HasMsg

\* The wait for a message expires: APITimeoutError is raised.
RecvTimeout ==
    /\ recvT = "run"
    /\ taskStarted
    /\ TimeoutExpires
    /\ RecvFinally("timeout")
    /\ recvT' = "timeout"
    /\ gatherExc' = FirstExc("APITimeoutError")
    /\ UNCHANGED <<runVars, connVars, inputT, sendT, callerVars, tokVars, wire, srvVars, rxAudio, nFinal>>
    /\ tasksRan' = TRUE
    /\ UNCHANGED <<cfgVars, retryVars, endInputs>>

\* except asyncio.CancelledError: re-raise, through finally.
RecvCancelled ==
    /\ recvT = "cancelling"
    /\ RecvFinally("cancelled")
    /\ recvT' = "cancelled"
    /\ UNCHANGED <<runVars, connVars, inputT, sendT, gatherExc, callerVars, tokVars, wire, srvVars, rxAudio, nFinal>>
    /\ tasksRan' = TRUE
    /\ UNCHANGED <<cfgVars, retryVars, endInputs>>

\* ---------------------------------------------------------------- server
\* Audio bytes are numbered in the order the server produces them.
Bytes(first, n) == [i \in 1..n |-> first + i - 1]
\* TEXT events without audio: the acknowledgment the client waits for, the
\* other acknowledgment (out of order or repeated), and the error event.
PlainEvents == {"connected_success", "task_started", "error"}
\* What the server may send next: a plain event, a BINARY message, or, once
\* task_start was written, an audio event (well-formed, malformed or empty,
\* each with or without is_final).  A malformed payload carries the bytes its
\* valid hex digits stand for; bytes.fromhex rejects the payload as a whole.
ServerMsgs ==
    {TextMsg(ev, FALSE, FALSE, <<>>, FALSE) : ev \in PlainEvents}
      \cup {CtrlMsg("BINARY")}
      \cup (IF Len(wire) = 0 THEN {}
            ELSE {TextMsg("task_continued", TRUE, FALSE, Bytes(srvByte, n), f) :
                      n \in 1..MaxChunk, f \in BOOLEAN}
                 \cup {TextMsg("task_continued", TRUE, TRUE, Bytes(srvByte, n), f) :
                           n \in 1..MaxChunk, f \in BOOLEAN}
                 \cup {TextMsg("task_continued", FALSE, FALSE, <<>>, TRUE)})

ServerSend ==
    /\ ws = "open" /\ ~srvClosed
    /\ srvSent < MaxSrvMsgs
    /\ Len(inbox) < MaxInbox
    /\ \E m \in ServerMsgs :
         /\ inbox' = Append(inbox, m)
         /\ srvByte' = srvByte + Len(m.bytes)
    /\ srvSent' = srvSent + 1
    /\ UNCHANGED <<runVars, connVars, taskVars, callerVars, tokVars, wire, srvClosed, audioVars>>
    /\ UNCHANGED <<cfgVars, retryVars, endInputs, tasksRan>>

\* The server closes the connection, or the transport fails (ERROR).
ServerClose ==
    /\ ws = "open" /\ ~srvClosed
    /\ \E t \in {"CLOSED", "ERROR"} : inbox' = Append(inbox, CtrlMsg(t))
    /\ srvClosed' = TRUE
    /\ UNCHANGED <<runVars, connVars, taskVars, callerVars, tokVars, wire, srvSent, srvByte, audioVars>>
    /\ UNCHANGED <<cfgVars, retryVars, endInputs, tasksRan>>

\* ---------------------------------------------------------------- specification
Next ==
    \/ RunBegin \/ ConnectOk \/ ConnectFail
    \/ WaitConnected \/ SendTaskStartOk \/ SendTaskStartFail \/ WaitTaskStarted
    \/ GatherReturn \/ GatherRaise \/ ExceptAPIError \/ ExceptException \/ Finally
    \/ CallerWrite \/ CallerFlush \/ CallerEnd
    \/ CancelHandshake \/ CancelGather \/ CancelBeforeStart \/ CancelGatherLate
    \/ CancelHandler \/ CancelWaitDone
    \/ InputPull \/ InputEnd \/ InputCancelled
    \/ SendToken \/ SendFinish \/ SendFail \/ SendCancelled
    \/ RecvMessage \/ RecvTimeout \/ RecvCancelled
    \/ ServerSend \/ ServerClose

Spec == Init /\ [][Next]_vars

\* The options of a TTS object from its construction to the connection attempt
\* of its stream.
TTSInit ==
    /\ tts = "unbuilt" /\ opts = NoOptions /\ hdrKey = NoneValue
    /\ StreamInit
TTSNext ==
    \/ Construct \/ UpdateOptions
    \/ RunBegin \/ ConnectOk \/ ConnectFail
TTSSpec == TTSInit /\ [][TTSNext]_vars

\* The event loop runs every coroutine that can take a step, and a bounded
\* wait that can expire does expire; the caller and the server owe nothing.
RunSteps ==
    \/ GatherReturn \/ GatherRaise \/ ExceptAPIError \/ ExceptException
    \/ Finally \/ CancelWaitDone
InputSteps == InputPull \/ InputEnd \/ InputCancelled
SendSteps == SendToken \/ SendFinish \/ SendFail \/ SendCancelled
RecvSteps == RecvMessage \/ RecvTimeout \/ RecvCancelled

FairSpec ==
    /\ Spec
    /\ WF_vars(RunSteps) /\ WF_vars(InputSteps)
    /\ WF_vars(SendSteps) /\ WF_vars(RecvSteps)

\* The stream with the retries of the base class: up to MaxAttempts invocations
\* of _run.
RetryNext == Next \/ Retry
RetrySpec == Init /\ [][RetryNext]_vars


\* ---------------------------------------------------------------- observations
\* The handshake is complete: both acknowledgments, in order, around task_start.
Ready == hs = <<"connected", "task_start", "task_started">>

\* The handshake was broken by the server or the transport: an event other
\* than connected_success came first, or the connection closed or failed
\* before task_started (seen by a receive or by the send of task_start).
HandshakeBroken ==
    /\ hs # <<>>
    /\ hs[Len(hs)] \in {"unexpected", "closed", "transport_error", "send_failed"}

\* The texts carried by the task_continue messages on the wire, in order.
RECURSIVE TextsOf(_)
TextsOf(w) ==
    IF w = <<>> THEN <<>>
    ELSE IF Head(w)[1] = "task_continue" THEN <<Head(w)[2]>> \o TextsOf(Tail(w))
         ELSE TextsOf(Tail(w))
WireTokens == TextsOf(wire)
NumSent == Len(WireTokens)

\* Tokens sent and not yet answered by an is_final event.
Pending == NumSent - nFinal

IsPrefix(a, b) == Len(a) <= Len(b) /\ a = SubSeq(b, 1, Len(a))

\* The audio bytes pushed to the emitter by its first n calls, in order.
RECURSIVE PushedBytes(_, _)
PushedBytes(em, n) ==
    IF n = 0 THEN <<>> ELSE PushedBytes(em, n - 1) \o em[n].b
NumFlushes == Cardinality({i \in 1..Len(emitter) : emitter[i].k = "flush"})

\* This step is a turn of the receive loop that takes the message at the head
\* of the inbox from the open socket.
RecvTakes ==
    /\ recvT = "run" /\ taskStarted
    /\ ws = "open" /\ inbox # <<>>
    /\ inbox' = Tail(inbox)
\* The audio the emitter holds and the audio still buffered, in order.
Forwarded == PushedBytes(emitter, Len(emitter)) \o bstream

\* ---------------------------------------------------------------- claims

\* C1: no stage is started and no task_continue is written before the client
\* has received connected_success, then sent task_start, then received
\* task_started, in that order on the connection.
C1_StagesAfterHandshake ==
    (TasksCreated \/ NumSent > 0) => Ready
C1_Witness ==
    /\ Ready /\ sendT = "ok" /\ NumSent > 0

\* C2: when end-of-input was signalled, every token was sent and every sent
\* token was answered with is_final (pending count zero), and neither the
\* server closed nor the caller cancelled, the stream has ended successfully.
C2_CompletionOnceAcknowledged ==
    (/\ pc = "done" /\ inputT = "ok" /\ sendT = "ok"
     /\ NumSent > 0 /\ Pending = 0
     /\ ~srvClosed /\ exc # "cancel")
    => result = "ok"

\* C3: when the tokenizer ended without any token being sent, the stream
\* completes successfully and the receive stage ended neither on a server
\* message nor on an expired timeout.
C3_NoTokenTermination ==
    (/\ pc = "done" /\ inputT = "ok" /\ sendT = "ok"
     /\ NumSent = 0 /\ exc # "cancel")
    => (result = "ok" /\ recvEnd \notin {"closed", "error", "timeout"})

\* C4: a stream never ends successfully while a sent token has neither been
\* answered with is_final nor been reported as an error.
C4_EveryTokenAccounted ==
    (pc = "done" /\ result = "ok") => (Pending <= 0 \/ emitted > 0)

\* C5: the audio pushed to the emitter is the audio that arrived, in arrival
\* order, short only of what the frame buffer still holds; and when a segment
\* flush is issued for an is_final event, every audio byte received so far,
\* the bytes of that event included, has been pushed before it.
C5_AudioOrder ==
    /\ PushedBytes(emitter, Len(emitter)) \o bstream = rxAudio
    /\ \A i \in 1..Len(emitter) :
         emitter[i].k = "flush" => Len(PushedBytes(emitter, i - 1)) = emitter[i].n
C5_Witness ==
    \E i \in 1..Len(emitter) :
        /\ emitter[i].k = "flush" /\ emitter[i].n = 2
        /\ \E j \in 1..(i - 1) : emitter[j].k = "flush" /\ emitter[j].n = 1

\* C6: the texts of the task_continue messages on the wire are the tokens the
\* tokenizer emitted, blank ones removed, in the same order and once each: a
\* prefix of them while the send stage runs, all of them once it has returned.
C6_TokensInOrder ==
    /\ IsPrefix(WireTokens, SelectNonBlank(tokLog))
    /\ sendT = "ok" => WireTokens = SelectNonBlank(tokLog)
C6_Witness ==
    /\ sendT = "ok" /\ NumSent = 1 /\ Len(tokLog) = 2

\* C7: when a stream whose receive stage ran has ended, the emitter was flushed
\* once per is_final event and exactly once more at the end of the stream.
C7_OneEndFlush ==
    (pc = "done" /\ recvT # "none") => NumFlushes = nFinal + 1

\* C8: when the attempt has ended, by whatever path, the WebSocket it opened
\* is not left open.
C8_SocketClosedAtEnd ==
    pc = "done" => ws # "open"
C8_Witness ==
    /\ pc = "done" /\ result = "cancel"
    /\ hs = <<"connected", "task_start">> /\ ws = "closed" /\ ~srvClosed

\* C9: the caller observes one terminal result: a stream that ends
\* successfully has emitted no non-recoverable error, and a stream that ends
\* with a raised error has emitted no non-recoverable error besides it.
C9_OneTerminalResult ==
    pc = "done" =>
        /\ result = "ok" => emitted = 0
        /\ IsAPIError(result) => emitted + 1 = 1


C11_ErrorEventNonFatal ==
    /\ [][(RecvTakes /\ Head(inbox).t = "TEXT" /\ Head(inbox).ev = "error")
            => /\ recvT' = "run" /\ gatherExc' = gatherExc /\ recvEnd' = recvEnd
               /\ emitted' = emitted + 1
               /\ emitter' = emitter /\ bstream' = bstream]_vars
    /\ [](emitted > 0 => Forwarded = rxAudio)
\* The error event was read first, audio came after it and was forwarded, and
\* the attempt ended successfully.
C11_Witness ==
    /\ pc = "done" /\ result = "ok"
    /\ errLog = <<ErrorEntry("APIStatusError", 0)>>
    /\ rxAudio # <<>> /\ Forwarded = rxAudio /\ NumFlushes = 1

\* C12: a malformed audio payload costs that chunk only.  The turn of the
\* receive loop that reads it forwards none of its bytes, still honours
\* is_final of the same event (the buffered rest is pushed and the segment is
\* flushed), leaves the receive task running with no exception set, and
\* reports one error, which it reports as a recoverable one.
C12_MalformedChunkOnly ==
    [][(RecvTakes /\ Head(inbox).t = "TEXT" /\ Head(inbox).hasAudio /\ Head(inbox).bad)
        => /\ recvT' = "run" /\ gatherExc' = gatherExc /\ recvEnd' = recvEnd
           /\ rxAudio' = rxAudio /\ Forwarded' = Forwarded
           /\ IF Head(inbox).final
              THEN /\ emitter' = emitter \o FlushFrames(bstream) \o <<FlushEntry(Len(rxAudio))>>
                   /\ bstream' = <<>>
              ELSE /\ emitter' = emitter /\ bstream' = bstream
           /\ emitted' = emitted + 1
           /\ Len(errLog') = Len(errLog) + 1
           /\ errLog'[Len(errLog')].recoverable]_vars

\* C13: when the bounded wait of the receive loop expires after tokenization
\* has finished (input ended, every token and task_finish sent) with answers
\* still outstanding, the attempt ends successfully: the expiry never reaches
\* the caller as a failure.
C13_TimeoutForcesCompletion ==
    (/\ pc = "done" /\ recvEnd = "timeout"
     /\ inputT = "ok" /\ sendT = "ok" /\ Pending > 0
     /\ exc # "cancel")
    => result = "ok"

\* C14: a missing or empty credential is rejected by the constructor and never
\* later: no connection is attempted with an Authorization header whose key
\* proper (what follows the "Bearer " prefix) is empty, nor with an empty
\* group id.
C14_NoEmptyCredential ==
    hdrKey # NoneValue => (KeyProper(hdrKey) # <<>> /\ opts.group_id # <<>>)

\* C15: when the handshake is broken (the first event is not
\* connected_success, or the transport closes or fails before
\* connected_success or between it and task_started), no task is created and
\* the stream is not marked started; the attempt ends with the socket closed
\* and, unless the caller cancelled it meanwhile, with APIConnectionError.
C15_BrokenHandshakeFails ==
    /\ HandshakeBroken => (~TasksCreated /\ markStarted = 0 /\ NumSent = 0)
    /\ (pc = "done" /\ HandshakeBroken) =>
          /\ ws = "closed"
          /\ exc # "cancel" => result = "APIConnectionError"
\* connected_success, task_start sent, then the connection closed.
C15_Witness ==
    /\ pc = "done" /\ hs = <<"connected", "task_start", "closed">>
    /\ result = "APIConnectionError" /\ ws = "closed" /\ ~TasksCreated

\* C16: a failed send of task_continue or task_finish is fatal for the stream.
\* The failure reaches gather (the send task does not swallow it); when the
\* attempt has ended it has not ended successfully, it ended with a connection
\* error unless the caller cancelled it, and the input task and the receive
\* task have finished as well.
C16_SendFailureFatal ==
    /\ sendT = "exc" => gatherExc # "none"
    /\ (pc = "done" /\ sendT = "exc") =>
          /\ result # "ok"
          /\ exc # "cancel" => IsConnectionError(result)
          /\ Finished(inputT) /\ Finished(recvT)

\* C19: update_options changes exactly the options that are given among
\* model, language, voice_id, speed and emotion.  For every stored
\* configuration and every choice of arguments, each option of the result is
\* the argument when it is one of the five and given, and the stored value
\* otherwise; and no step that changes the options of a built client touches
\* an option outside the five.
C19_UpdateOptionsFrame ==
    /\ [](tts = "built" =>
            \A u \in UpdateArgs : \A f \in DOMAIN opts :
                UpdatedOptions(opts, u)[f] =
                    IF f \in Updatable /\ IsGiven(u[f]) THEN u[f] ELSE opts[f])
    /\ [][(tts = "built" /\ opts' # opts) =>
            \A f \in (DOMAIN opts) \ Updatable : opts'[f] = opts[f]]_vars
\* Model and emotion were updated; language, which was never given, and the
\* sample rate and key chosen at construction are as the constructor left them.
C19_Witness ==
    /\ tts = "built"
    /\ opts.model = Str("speech-01") /\ opts.emotion = Str("happy")
    /\ opts.language = NotGiven /\ opts.speed = NotGiven
    /\ opts.sample_rate = 16000 /\ opts.api_key = <<BearerPrefix, "k">>

\* C20: whichever task ends the stream, the other two are cancelled and all
\* three have finished before _run closes the connection: when the attempt
\* has ended no task it created is still running, and once the receive task
\* has returned because the connection closed, the input task and the send
\* task come to an end whatever the caller does.
C20_StagesEndTogether ==
    /\ []((pc = "done" /\ TasksCreated) => AllFinished)
    /\ (recvT = "ok" /\ recvEnd = "closed") ~> (Finished(inputT) /\ Finished(sendT))

\* C21: the connection timeout covers the whole connection setup: while _run
\* waits for connected_success or for task_started, the wait can end by a step
\* of the client itself, so that a server that accepts the transport and then
\* stays silent cannot keep the attempt waiting.
C21_SetupWaitBounded ==
    pc \in {"wait_connected", "wait_started"}
        => ENABLED (WaitConnected \/ WaitTaskStarted)

\* C22: the bounded wait of the receive loop ends the stream only when the
\* caller has ended input, tokenization has finished and a sent token is still
\* unanswered; it never expires while the caller has not ended input.
C22_TimeoutOnlyWhenOutstanding ==
    [][(recvEnd = "none" /\ recvEnd' = "timeout")
          => (inputClosed /\ tokClosed /\ Pending > 0)]_vars

\* The input task has left its coroutine.
InputExited == inputT \in {"ok", "exc", "cancelled"}

C24_MarkedAtFirstToken ==
    markStarted > 0 => NumSent > 0

\* C25: the pending count, task_continue messages sent minus is_final events
\* processed, is never negative, whatever the server sends.
C25_PendingNonNegative ==
    Pending >= 0

\* C26: once the caller has cancelled the stream, no item is pulled from the
\* input channel, no task_continue is written and no message is received.
C26_StagesStopOnCancel ==
    [][exc = "cancel"
          => /\ Len(inputCh') >= Len(inputCh)
             /\ NumSent' = NumSent
             /\ Len(inbox') >= Len(inbox)]_vars

\* C27: when the receive loop has ended, on any path, every decoded audio byte
\* was pushed to the emitter in arrival order, none is left in the frame
\* buffer, and the last push is followed by a flush of the emitter.
C27_AudioFlushedAtEnd ==
    recvEnd # "none"
        => /\ bstream = <<>>
           /\ PushedBytes(emitter, Len(emitter)) = rxAudio
           /\ (emitter # <<>> => emitter[Len(emitter)].k = "flush")

\* The places of the task_finish messages on the wire.
FinishAt == {i \in 1..Len(wire) : wire[i][1] = "task_finish"}

\* C28: task_finish is written at most once, as the last message, after the
\* tokenizer stream was closed and read to its end, by a send task that then
\* returns; a send task that failed or was cancelled has written none.
C28_FinishOnceAndLast ==
    /\ Cardinality(FinishAt) <= 1
    /\ \A i \in FinishAt :
          i = Len(wire) /\ tokClosed /\ tokOut = <<>> /\ sendT = "ok"
    /\ sendT \in {"exc", "cancelling", "cancelled"} => FinishAt = {}
C28_Witness ==
    /\ FinishAt # {} /\ NumSent > 0

\* A task is created and has not ended.
Running(t) == t \in {"run", "cancelling"}

\* C29: whenever one of the three tasks is running, _task_started is true, in
\* the first invocation of _run and in its retries; the receive loop never
\* takes its polling branch.
C29_StartedWhileTasksRun ==
    /\ (Running(inputT) \/ Running(sendT) \/ Running(recvT)) => taskStarted
    /\ recvEnd # "not_started"
C29_Witness ==
    /\ attempt = 2 /\ Running(recvT) /\ taskStarted

\* The text fragments carried by the task_continue messages of this connection.
SentFrags == UNION {Range(WireTokens[i]) : i \in 1..NumSent} \ {Blank}

\* C30: every invocation of _run, first or retry, goes into its connection
\* setup with a new, empty tokenizer stream and _task_started false, and from
\* then on neither its tokenizer nor its connection carries text that an
\* earlier invocation pulled from the input channel.
C30_AttemptsIsolated ==
    /\ pc \in {"connect", "wait_connected", "send_start", "wait_started"}
          => (CurTok = NewTokenizer /\ ~taskStarted)
    /\ pc # "start" => PulledNow \cap pulledBefore = {}
    /\ SentFrags \cap pulledBefore = {}
C30_Witness ==
    /\ attempt = 2 /\ pulledBefore # {} /\ SentFrags # {}

====
